---- MODULE Spec2Model ----
(***************************************************************************)
(* Model of igtdetect/glossharvester.py: the line parsers, the text        *)
(* normaliser (detect_prefix, detect_grammaticality), get_context and the  *)
(* single forward pass harvest_IGTs.                                       *)
(*                                                                         *)
(* A Python str is a sequence of one-character strings, so that split,     *)
(* replace, slicing and indexing are computed as the code computes them.   *)
(* A Python list index k (0-based, negative wraps from the end) is turned  *)
(* into a TLA+ index by PyIdx.                                              *)
(***************************************************************************)
EXTENDS Integers, Sequences, FiniteSets, TLC

\* ------------------------------------------------------------------------
\* Python string primitives
\* ------------------------------------------------------------------------

NA == <<"N", "A">>

Digits == {"0", "1", "2", "3", "4", "5", "6", "7", "8", "9"}

Whitespace == {" ", "\n", "\t"}

\* s[k:] with k a 1-based position
Tail_from(s, k) == SubSeq(s, k, Len(s))

\* s.startswith(pat)
startswith(s, pat) == Len(s) >= Len(pat) /\ SubSeq(s, 1, Len(pat)) = pat

\* s.find(pat) as a 1-based position, 0 when pat does not occur
find(s, pat) ==
    LET hits == {k \in 1..(Len(s) - Len(pat) + 1) : SubSeq(s, k, k + Len(pat) - 1) = pat}
    IN  IF hits = {} THEN 0 ELSE CHOOSE k \in hits : \A j \in hits : k <= j

\* pat in s
contains(s, pat) == find(s, pat) # 0

\* s.split(pat): the list of segments between the occurrences of pat
RECURSIVE split(_, _)
split(s, pat) ==
    LET p == find(s, pat)
    IN  IF p = 0 THEN <<s>>
        ELSE <<SubSeq(s, 1, p - 1)>> \o split(Tail_from(s, p + Len(pat)), pat)

\* s.split(pat, 1)
split1(s, pat) ==
    LET p == find(s, pat)
    IN  IF p = 0 THEN <<s>>
        ELSE <<SubSeq(s, 1, p - 1), Tail_from(s, p + Len(pat))>>

\* s.split(): the whitespace-separated tokens of s
RECURSIVE split_ws(_, _, _)
split_ws(s, k, cur) ==
    IF k > Len(s) THEN (IF cur = <<>> THEN <<>> ELSE <<cur>>)
    ELSE IF s[k] \in Whitespace
         THEN (IF cur = <<>> THEN split_ws(s, k + 1, <<>>)
               ELSE <<cur>> \o split_ws(s, k + 1, <<>>))
         ELSE split_ws(s, k + 1, Append(cur, s[k]))

words_of(s) == split_ws(s, 1, <<>>)

\* s.replace(pat, ''): every occurrence of pat is cut out of s
RECURSIVE replace_all(_, _)
replace_all(s, pat) ==
    LET p == find(s, pat)
    IN  IF p = 0 \/ pat = <<>> THEN s
        ELSE SubSeq(s, 1, p - 1) \o replace_all(Tail_from(s, p + Len(pat)), pat)

\* s.replace(pat, '', 1): the first occurrence of pat is cut out of s
replace_first(s, pat) ==
    LET p == find(s, pat)
    IN  IF p = 0 \/ pat = <<>> THEN s
        ELSE SubSeq(s, 1, p - 1) \o Tail_from(s, p + Len(pat))

\* s.strip()
RECURSIVE lstrip(_)
lstrip(s) == IF s # <<>> /\ s[1] \in Whitespace THEN lstrip(Tail(s)) ELSE s

RECURSIVE rstrip(_)
rstrip(s) ==
    IF s # <<>> /\ s[Len(s)] \in Whitespace THEN rstrip(SubSeq(s, 1, Len(s) - 1)) ELSE s

strip(s) == rstrip(lstrip(s))

DigitVal(c) ==
    CASE c = "0" -> 0 [] c = "1" -> 1 [] c = "2" -> 2 [] c = "3" -> 3 [] c = "4" -> 4
      [] c = "5" -> 5 [] c = "6" -> 6 [] c = "7" -> 7 [] c = "8" -> 8 [] c = "9" -> 9

RECURSIVE DecVal(_)
DecVal(ds) == IF ds = <<>> THEN 0 ELSE 10 * DecVal(SubSeq(ds, 1, Len(ds) - 1)) + DigitVal(ds[Len(ds)])

AllDigits(s) == s # <<>> /\ \A k \in 1..Len(s) : s[k] \in Digits

\* the sign of a numeral and the numeral without it
Unsigned(s) == IF s # <<>> /\ s[1] \in {"+", "-"} THEN Tail(s) ELSE s
Sign(s) == IF s # <<>> /\ s[1] = "-" THEN -1 ELSE 1

\* int(s): decimal numerals with an optional sign and surrounding whitespace
int_ok(s) == AllDigits(Unsigned(strip(s)))
int(s) == Sign(strip(s)) * DecVal(Unsigned(strip(s)))

\* float(s) for decimal notation (digits with at most one point, optional
\* sign, surrounding whitespace); the value is kept in hundredths, which is
\* exact for the at most three characters get_iscore passes in.
float_ok(s) ==
    LET u == Unsigned(strip(s))
        p == find(u, <<".">>)
    IN  IF p = 0 THEN AllDigits(u)
        ELSE LET ip == SubSeq(u, 1, p - 1)
                 fp == Tail_from(u, p + 1)
             IN  /\ ip \o fp # <<>>
                 /\ \A k \in 1..Len(ip) : ip[k] \in Digits
                 /\ \A k \in 1..Len(fp) : fp[k] \in Digits

float100(s) ==
    LET u == Unsigned(strip(s))
        p == find(u, <<".">>)
        ip == IF p = 0 THEN u ELSE SubSeq(u, 1, p - 1)
        fp == IF p = 0 THEN <<>> ELSE Tail_from(u, p + 1)
        f2 == SubSeq(fp \o <<"0", "0">>, 1, 2)
    IN  Sign(strip(s)) * (100 * DecVal(ip) + DecVal(f2))

\* seq[k] for a Python index k: 0-based, a negative k counts from the end
PyIdx_ok(seq, k) == -Len(seq) <= k /\ k < Len(seq)
PyIdx(seq, k) == IF k >= 0 THEN seq[k + 1] ELSE seq[Len(seq) + k + 1]

\* ------------------------------------------------------------------------
\* Line Reader
\* ------------------------------------------------------------------------

kLINE == <<"l", "i", "n", "e">>
kLINE_EQ == <<"l", "i", "n", "e", "=">>
kTAG_EQ == <<"t", "a", "g", "=">>
kISCORE == <<"i", "s", "c", "o", "r", "e">>
kISCORE_EQ == <<"i", "s", "c", "o", "r", "e", "=">>
kDOC_ID == <<"d", "o", "c", "_", "i", "d">>
kDOC_ID_EQ == <<"d", "o", "c", "_", "i", "d", "=">>
kSCANNED == <<"-", "s", "c", "a", "n", "n", "e", "d">>
kPAGE_EQ == <<"p", "a", "g", "e", "=">>

get_utterance(row) == IF contains(row, <<":">>) THEN split1(row, <<":">>)[2] ELSE NA

\* row.split('line=')[1].split()[0] raises IndexError when nothing follows
get_linenr_raises(row) ==
    contains(row, kLINE_EQ) /\ words_of(split(row, kLINE_EQ)[2]) = <<>>

get_linenr(row) ==
    IF contains(row, kLINE_EQ) THEN words_of(split(row, kLINE_EQ)[2])[1] ELSE NA

\* the IndexError of an empty segment is caught and gives 'NA'
get_linetag(row) ==
    IF contains(row, kTAG_EQ)
    THEN LET seg == split(row, kTAG_EQ)[2]
         IN  IF seg = <<>> THEN NA ELSE <<seg[1]>>
    ELSE NA

iscore_text(row) ==
    LET seg == split(row, kISCORE_EQ)[2] IN SubSeq(seg, 1, IF Len(seg) < 3 THEN Len(seg) ELSE 3)

get_iscore_raises(row) ==
    /\ contains(row, kISCORE)
    /\ \/ ~contains(row, kISCORE_EQ)
       \/ ~float_ok(iscore_text(row))

\* in hundredths
get_iscore(row) == IF contains(row, kISCORE) THEN float100(iscore_text(row)) ELSE 0

\* ------------------------------------------------------------------------
\* Text Normalizer
\* ------------------------------------------------------------------------

\* Python values that are a list, a str or None are tagged with their type.
PyNone == [t |-> "None", v |-> <<>>]
PyList(l) == [t |-> "list", v |-> l]
PyStr(s) == [t |-> "str", v |-> s]

\* the default prefix="NA" of IGT.__init__
PrefixNA == [t |-> "NA", v |-> <<>>]

\* bool(x) of a tagged list
truthy(x) == x.t = "list" /\ x.v # <<>>

PrefixPunctuation == {".", "(", ")", "{", "}", "[", "]"}

\* (punctuations or numerals) and len(item) < 6
prefix_item(item) ==
    /\ \E k \in 1..Len(item) : item[k] \in PrefixPunctuation \cup Digits
    /\ Len(item) < 6

\* the loop returns the items collected so far at the first item that does
\* not qualify; when the loop runs out of items the function returns None
detect_prefix(line) ==
    LET words == words_of(line)
        stops == {k \in 1..Len(words) : ~prefix_item(words[k])}
    IN  IF stops = {} THEN PyNone
        ELSE PyList(SubSeq(words, 1, (CHOOSE k \in stops : \A j \in stops : k <= j) - 1))

RECURSIVE strip_prefix(_, _)
strip_prefix(utterance, pfs) ==
    IF pfs = <<>> THEN utterance
    ELSE strip_prefix(replace_first(utterance, pfs[1]), Tail(pfs))

\* returns the pair (prefix, utterance)
get_utterance_and_prefix(row) ==
    LET utterance == get_utterance(row)
        prefix == detect_prefix(utterance)
    IN  [prefix |-> prefix,
         utterance |-> IF truthy(prefix) THEN strip_prefix(utterance, prefix.v) ELSE utterance]

GramMarkers == {"*", "?", "#", "%"}

\* markers are returned at the first character that is not one; when the
\* first word runs out, or there is no word, the function returns None
detect_grammaticality(utterance) ==
    LET words == words_of(utterance)
    IN  IF words = <<>> THEN PyNone
        ELSE LET w == words[1]
                 stops == {k \in 1..Len(w) : w[k] \notin GramMarkers}
             IN  IF stops = {} THEN PyNone
                 ELSE PyStr(SubSeq(w, 1, (CHOOSE k \in stops : \A j \in stops : k <= j) - 1))

\* ------------------------------------------------------------------------
\* Context Extractor
\* ------------------------------------------------------------------------

context_size == 5

\* for i in range(d, context_size): lines[index+i] is read with Python
\* indexing; the first IndexError returns what was built so far
RECURSIVE context_from(_, _, _, _)
context_from(lns, index, d, size) ==
    IF d >= size THEN <<>>
    ELSE IF ~PyIdx_ok(lns, index + d) THEN <<>>
    ELSE get_utterance(PyIdx(lns, index + d)) \o <<"\n">> \o context_from(lns, index, d + 1, size)

get_context(lns, index, size) == context_from(lns, index, -size, size)

\* ------------------------------------------------------------------------
\* IGT records
\* ------------------------------------------------------------------------

tagL == <<"L">>
tagG == <<"G">>
tagT == <<"T">>

\* iscore_cutoff: float = 0.6, in hundredths
iscore_cutoff == 60

\* IGT.__init__ with its defaults, for the keyword arguments the pass gives
IGT(line_, gloss_, translation_, source_, linenr_, pagenr_, methods_) ==
    [line |-> line_, gloss |-> gloss_, translation |-> translation_,
     prefix |-> PrefixNA, grammarker |-> PyStr(NA), context |-> <<>>,
     source |-> source_, linenr |-> linenr_, pagenr |-> pagenr_, doi |-> NA,
     classification_methods |-> methods_]

\* IGT_from_L without source=source: the record keeps the default "NA"
IGT_from_L_default_source(lns, idx, utterance, linenr, source_, pagenr_) ==
    [IGT(utterance, NA, NA, NA, int(linenr), pagenr_, <<"IGT initialized by L tag">>)
        EXCEPT !.grammarker = detect_grammaticality(utterance),
               !.context = get_context(lns, idx, context_size)]

\* IGT_from_L that takes the text of a G row just before it as its gloss
IGT_from_L_linking_back(lns, idx, utterance, linenr, source_, pagenr_) ==
    [IGT(utterance,
         IF idx >= 1 /\ get_linetag(lns[idx]) = tagG THEN get_utterance(lns[idx]) ELSE NA,
         NA, source_, int(linenr), pagenr_, <<"IGT initialized by L tag">>)
        EXCEPT !.grammarker = detect_grammaticality(utterance),
               !.context = get_context(lns, idx, context_size)]

\* the record the L branch builds for the row at index idx
IGT_from_L(lns, idx, utterance, linenr, source_, pagenr_) ==
    [IGT(utterance, NA, NA, source_, int(linenr), pagenr_, <<"IGT initialized by L tag">>)
        EXCEPT !.grammarker = detect_grammaticality(utterance),
               !.context = get_context(lns, idx, context_size)]

\* candidates with the window one line too wide
candidates_within3(igts, linenr) ==
    {k \in 1..Len(igts) : IF igts[k].linenr >= int(linenr)
                          THEN igts[k].linenr - int(linenr) <= 3
                          ELSE int(linenr) - igts[k].linenr <= 3}

\* the indexes of the records within 2 lines of the current line
candidates(igts, linenr) ==
    {k \in 1..Len(igts) : IF igts[k].linenr >= int(linenr)
                          THEN igts[k].linenr - int(linenr) <= 2
                          ELSE int(linenr) - igts[k].linenr <= 2}

\* update_by_tag assigning the provenance list instead of appending to it
update_by_tag_overwrite(igt, linetag, utterance) ==
    IF linetag = tagG
    THEN [igt EXCEPT !.classification_methods = <<"updated gloss by tag">>,
                     !.gloss = utterance]
    ELSE [igt EXCEPT !.classification_methods = <<"updated translation by tag">>,
                     !.translation = utterance]

\* update_by_tag that also resets the record's linenr
update_by_tag_renumber(igt, linetag, utterance) ==
    IF linetag = tagG
    THEN [igt EXCEPT !.classification_methods = Append(@, "updated gloss by tag"),
                     !.gloss = utterance, !.linenr = 0]
    ELSE [igt EXCEPT !.classification_methods = Append(@, "updated translation by tag"),
                     !.translation = utterance, !.linenr = 0]

\* the single candidate, updated by a G or T row
update_by_tag(igt, linetag, utterance) ==
    IF linetag = tagG
    THEN [igt EXCEPT !.classification_methods = Append(@, "updated gloss by tag"),
                     !.gloss = utterance]
    ELSE [igt EXCEPT !.classification_methods = Append(@, "updated translation by tag"),
                     !.translation = utterance]

\* the physical line a G (index-1) or T (index-2) row takes its L from
L_index(idx, linetag) == IF linetag = tagG THEN idx - 1 ELSE idx - 2

\* the record the zero-candidate branch builds for the row at index idx
IGT_from_GT(lns, idx, linetag, utterance, source_, pagenr_) ==
    LET base == IF linetag = tagG THEN IGT(NA, utterance, NA, source_, 0, pagenr_, <<>>)
                ELSE IGT(NA, NA, utterance, source_, 0, pagenr_, <<>>)
        pu == get_utterance_and_prefix(PyIdx(lns, L_index(idx, linetag)))
    IN  [base EXCEPT !.prefix = pu.prefix,
                     !.line = pu.utterance,
                     !.grammarker = detect_grammaticality(pu.utterance),
                     !.classification_methods =
                         <<"IGT initialized by G or T tag, L assigned accordingly">>]

\* get_utterance(lines[i+1]) if i < len(lines)-2 else 'NA'
lookahead_translation(lns, idx) ==
    IF idx < Len(lns) - 2 THEN get_utterance(PyIdx(lns, idx + 1)) ELSE NA

\* the record the iscore fallback builds for the row at index idx
IGT_from_iscore(lns, idx, utterance, source_, pagenr_) ==
    LET pu == get_utterance_and_prefix(PyIdx(lns, idx - 1))
    IN  [IGT(NA, utterance, NA, source_, 0, pagenr_, <<>>)
            EXCEPT !.prefix = pu.prefix,
                   !.line = pu.utterance,
                   !.grammarker = detect_grammaticality(pu.utterance),
                   !.translation = lookahead_translation(lns, idx),
                   !.classification_methods =
                       <<"IGT initialized by iscore L and T assigned accordingly">>,
                   !.context = get_context(lns, idx, context_size)]

\* re.search(r"doc_id=(.*?)-scanned", row): the match, and its group(1)
doc_id_match(row) ==
    LET p == find(row, kDOC_ID_EQ)
    IN  /\ p # 0
        /\ LET rest == Tail_from(row, p + Len(kDOC_ID_EQ))
               q == find(rest, kSCANNED)
           IN  q # 0 /\ ~contains(SubSeq(rest, 1, q - 1), <<"\n">>)

doc_id_group(row) ==
    LET rest == Tail_from(row, find(row, kDOC_ID_EQ) + Len(kDOC_ID_EQ))
    IN  SubSeq(rest, 1, find(rest, kSCANNED) - 1)

\* row.split('page=')[1].split(' ')[0]
doc_page(row) == split(split(row, kPAGE_EQ)[2], <<" ">>)[1]

\* ------------------------------------------------------------------------
\* Input streams
\* ------------------------------------------------------------------------

MaxLines == 5

\* doc_id=A-scanned page=1 
rowDocA == kDOC_ID_EQ \o <<"A">> \o kSCANNED \o <<" ">> \o kPAGE_EQ \o <<"1", " ", "\n">>
\* doc_id=B-scanned page=2 
rowDocB == kDOC_ID_EQ \o <<"B">> \o kSCANNED \o <<" ">> \o kPAGE_EQ \o <<"2", " ", "\n">>
\* line=1 tag=L:*a
rowL1 == kLINE_EQ \o <<"1", " ">> \o kTAG_EQ \o <<"L", ":", "*", "a", "\n">>
\* line=2 tag=L:(1) b
rowL2 == kLINE_EQ \o <<"2", " ">> \o kTAG_EQ \o <<"L", ":", "(", "1", ")", " ", "b", "\n">>
\* line=3 tag=G iscore=0.9:g
rowG3 == kLINE_EQ \o <<"3", " ">> \o kTAG_EQ \o <<"G", " ">> \o kISCORE_EQ
            \o <<"0", ".", "9", ":", "g", "\n">>
\* line=4 tag=T:t                    (no iscore= marker)
rowT4 == kLINE_EQ \o <<"4", " ">> \o kTAG_EQ \o <<"T", ":", "t", "\n">>
\* line=5 iscore=0.9:u               (no tag= marker)
rowU5 == kLINE_EQ \o <<"5", " ">> \o kISCORE_EQ \o <<"0", ".", "9", ":", "u", "\n">>
\* line tag=O iscore=0.69:v          (no line= marker)
rowV == kLINE \o <<" ">> \o kTAG_EQ \o <<"O", " ">> \o kISCORE_EQ
            \o <<"0", ".", "6", "9", ":", "v", "\n">>
\* an empty line
rowBlank == <<"\n">>

Pool == {rowDocA, rowDocB, rowL1, rowL2, rowG3, rowT4, rowU5, rowV, rowBlank}

Range(s) == {s[k] : k \in 1..Len(s)}

\* file.readlines(): the streams of n rows in which no row occurs twice
RECURSIVE StreamsOfLen(_)
StreamsOfLen(n) ==
    IF n = 0 THEN {<<>>}
    ELSE {t \in {Append(s, r) : s \in StreamsOfLen(n - 1), r \in Pool} :
             t[n] \notin Range(SubSeq(t, 1, n - 1))}

\* What the Line Reader and the Text Normalizer give for each row of Pool:
\* each row is read once, here, instead of once per use.
linetag_of == [r \in Pool |-> get_linetag(r)]
linenr_raises_of == [r \in Pool |-> get_linenr_raises(r)]
linenr_of == [r \in Pool |-> IF linenr_raises_of[r] THEN NA ELSE get_linenr(r)]
utterance_of == [r \in Pool |-> get_utterance_and_prefix(r).utterance]
iscore_raises_of == [r \in Pool |-> get_iscore_raises(r)]
iscore_of == [r \in Pool |-> IF iscore_raises_of[r] THEN 0 ELSE get_iscore(r)]

\* ------------------------------------------------------------------------
\* harvest_IGTs
\* ------------------------------------------------------------------------

VARIABLES
    lines,          \* the rows of the file
    i,              \* index of the row the loop is at (0-based)
    IGTs,           \* the records created so far
    saved_linenrs,  \* the line numbers consumed so far, as parsed strings
    source,         \* ambient document id
    pagenr,         \* ambient page number
    pc,             \* "loop", "done" (returned IGTs) or "raised"
    error,          \* the exception that ended the pass, "" when none
    trace,          \* the branch each processed row took
    call,           \* the function under way and its arguments
    ret             \* the value it returned

vars == <<lines, i, IGTs, saved_linenrs, source, pagenr, pc, error, trace, call, ret>>

\* a local name that has not been assigned yet
Unbound == [bound |-> FALSE, v |-> <<>>]
Bound(x) == [bound |-> TRUE, v |-> x]

Init ==
    /\ \E n \in 0..MaxLines : lines \in StreamsOfLen(n)
    /\ i = 0
    /\ IGTs = <<>>
    /\ saved_linenrs = <<>>
    /\ source = Unbound
    /\ pagenr = Unbound
    /\ pc = "loop"
    /\ error = ""
    /\ trace = <<>>
    /\ call = [fn |-> "harvest_IGTs"]
    /\ ret = <<>>

\* the row of this iteration and what lines 136-140 and 205 read from it
row == lines[i + 1]
linetag == linetag_of[row]
linenr == linenr_of[row]
utterance == utterance_of[row]
iscore == iscore_of[row]
is_content == startswith(row, kLINE)
is_doc == ~startswith(row, kLINE) /\ startswith(row, kDOC_ID)

\* lines[i-1], and get_linenr of it
previous_row == PyIdx(lines, i - 1)

\* x in saved_linenrs
saved(x) == \E k \in 1..Len(saved_linenrs) : saved_linenrs[k] = x

\* lines 190-202 are reached by a row that is not L, G or T, and by a G or T
\* row with several candidates (its branch is `pass`, without `continue`)
fallback_error ==
    IF iscore > iscore_cutoff
    THEN IF linenr_raises_of[previous_row] THEN "IndexError"
         ELSE IF saved(linenr_of[previous_row]) THEN ""
         ELSE IF ~source.bound THEN "UnboundLocalError"
         ELSE ""
    ELSE ""

fallback_branch ==
    IF iscore > iscore_cutoff
    THEN IF saved(linenr_of[previous_row]) THEN "fb_skip" ELSE "fb_create"
    ELSE "fb_none"

\* the exception this iteration raises, "" when it raises none
step_error ==
    IF is_content
    THEN IF linenr_raises_of[row] THEN "IndexError"
         ELSE IF iscore_raises_of[row]
              THEN (IF contains(row, kISCORE_EQ) THEN "ValueError" ELSE "IndexError")
         ELSE IF linetag = tagL
              THEN (IF ~int_ok(linenr) THEN "ValueError"
                    ELSE IF ~source.bound THEN "UnboundLocalError" ELSE "")
         ELSE IF linetag \in {tagG, tagT}
              THEN (IF IGTs # <<>> /\ ~int_ok(linenr) THEN "ValueError"
                    ELSE IF Cardinality(candidates(IGTs, linenr)) > 1 THEN fallback_error
                    ELSE IF Cardinality(candidates(IGTs, linenr)) = 1 THEN ""
                    ELSE IF ~source.bound THEN "UnboundLocalError"
                    ELSE IF ~PyIdx_ok(lines, L_index(i, linetag)) THEN "IndexError"
                    ELSE "")
         ELSE fallback_error
    ELSE IF is_doc
         THEN (IF ~doc_id_match(row) THEN "AttributeError"
               ELSE IF ~contains(row, kPAGE_EQ) THEN "IndexError" ELSE "")
    ELSE ""

\* the branch this iteration takes when it raises nothing
step_branch ==
    IF is_content
    THEN IF linetag = tagL THEN "L"
         ELSE IF linetag \in {tagG, tagT}
              THEN (IF Cardinality(candidates(IGTs, linenr)) > 1 THEN fallback_branch
                    ELSE IF Cardinality(candidates(IGTs, linenr)) = 1 THEN "single"
                    ELSE "zero")
         ELSE fallback_branch
    ELSE IF is_doc THEN "doc"
    ELSE "other"

Stepping(b) ==
    /\ pc = "loop"
    /\ i < Len(lines)
    /\ step_error = ""
    /\ step_branch = b
    /\ i' = i + 1
    /\ trace' = Append(trace, b)
    /\ UNCHANGED <<lines, pc, error, call, ret>>

\* lines 142-149
LLine ==
    /\ Stepping("L")
    /\ IGTs' = Append(IGTs, IGT_from_L(lines, i, utterance, linenr, source.v, pagenr.v))
    /\ saved_linenrs' = Append(saved_linenrs, linenr)
    /\ UNCHANGED <<source, pagenr>>

\* lines 159-173
GTSingle ==
    /\ Stepping("single")
    /\ LET index == CHOOSE k \in candidates(IGTs, linenr) : TRUE
       IN  IGTs' = [IGTs EXCEPT ![index] = update_by_tag(IGTs[index], linetag, utterance)]
    /\ saved_linenrs' = Append(saved_linenrs, linenr)
    /\ UNCHANGED <<source, pagenr>>

\* lines 176-187: the record is built and bound to the local name igt only;
\* it is not appended to IGTs
GTZero ==
    /\ Stepping("zero")
    /\ saved_linenrs' = Append(saved_linenrs, linenr)
    /\ UNCHANGED <<IGTs, source, pagenr>>

\* lines 190-192
FallbackSkip ==
    /\ Stepping("fb_skip")
    /\ UNCHANGED <<IGTs, saved_linenrs, source, pagenr>>

\* lines 193-202
FallbackCreate ==
    /\ Stepping("fb_create")
    /\ IGTs' = Append(IGTs, IGT_from_iscore(lines, i, utterance, source.v, pagenr.v))
    /\ saved_linenrs' = Append(saved_linenrs, linenr)
    /\ UNCHANGED <<source, pagenr>>

\* line 190 is false
NoEffect ==
    /\ Stepping("fb_none")
    /\ UNCHANGED <<IGTs, saved_linenrs, source, pagenr>>

\* lines 205-207
DocBoundary ==
    /\ Stepping("doc")
    /\ source' = Bound(doc_id_group(row))
    /\ pagenr' = Bound(doc_page(row))
    /\ UNCHANGED <<IGTs, saved_linenrs>>

\* lines 208-209
OtherRow ==
    /\ Stepping("other")
    /\ UNCHANGED <<IGTs, saved_linenrs, source, pagenr>>

\* an uncaught exception leaves harvest_IGTs; nothing is returned
Raise ==
    /\ pc = "loop"
    /\ i < Len(lines)
    /\ step_error # ""
    /\ pc' = "raised"
    /\ error' = step_error
    /\ UNCHANGED <<lines, i, IGTs, saved_linenrs, source, pagenr, trace, call, ret>>

\* line 211
Return ==
    /\ pc = "loop"
    /\ i = Len(lines)
    /\ pc' = "done"
    /\ ret' = IGTs
    /\ UNCHANGED <<lines, i, IGTs, saved_linenrs, source, pagenr, error, trace, call>>

Next ==
    \/ LLine
    \/ GTSingle
    \/ GTZero
    \/ FallbackSkip
    \/ FallbackCreate
    \/ NoEffect
    \/ DocBoundary
    \/ OtherRow
    \/ Raise
    \/ Return

Spec == Init /\ [][Next]_vars

\* ------------------------------------------------------------------------
\* get_context and detect_prefix called on their own
\* ------------------------------------------------------------------------

MaxContextLines == 3
MaxWindow == 3
MaxTokens == 3

DefaultState ==
    /\ i = 0
    /\ IGTs = <<>>
    /\ saved_linenrs = <<>>
    /\ source = Unbound
    /\ pagenr = Unbound
    /\ error = ""
    /\ trace = <<>>
    /\ ret = <<>>

InitContext ==
    /\ \E n \in 1..MaxContextLines :
          /\ lines \in StreamsOfLen(n)
          /\ call \in {[fn |-> "get_context", index |-> k, size |-> w] :
                          k \in 0..(n - 1), w \in 0..MaxWindow}
    /\ pc = "call"
    /\ DefaultState

CallGetContext ==
    /\ pc = "call"
    /\ call.fn = "get_context"
    /\ ret' = get_context(lines, call.index, call.size)
    /\ pc' = "returned"
    /\ UNCHANGED <<lines, i, IGTs, saved_linenrs, source, pagenr, error, trace, call>>

NextContext == CallGetContext

SpecContext == InitContext /\ [][NextContext]_vars

\* (1)   2.   a   ab1cde   *b
TextTokens ==
    {<<"(", "1", ")">>, <<"2", ".">>, <<"a">>, <<"a", "b", "1", "c", "d", "e">>, <<"*", "b">>}

RECURSIVE JoinTokens(_)
JoinTokens(ts) ==
    IF ts = <<>> THEN <<>>
    ELSE IF Len(ts) = 1 THEN ts[1]
    ELSE ts[1] \o <<" ">> \o JoinTokens(Tail(ts))

InitPrefix ==
    /\ \E n \in 0..MaxTokens : \E ts \in [1..n -> TextTokens] :
          call = [fn |-> "detect_prefix", line |-> JoinTokens(ts)]
    /\ lines = <<>>
    /\ pc = "call"
    /\ DefaultState

CallDetectPrefix ==
    /\ pc = "call"
    /\ call.fn = "detect_prefix"
    /\ ret' = detect_prefix(call.line)
    /\ pc' = "returned"
    /\ UNCHANGED <<lines, i, IGTs, saved_linenrs, source, pagenr, error, trace, call>>

NextPrefix == CallDetectPrefix

SpecPrefix == InitPrefix /\ [][NextPrefix]_vars

\* *a   ??   a   #   ?b
GramTokens ==
    {<<"*", "a">>, <<"?", "?">>, <<"a">>, <<"#">>, <<"?", "b">>}

InitGram ==
    /\ \E n \in 0..MaxTokens : \E ts \in [1..n -> GramTokens] :
          call = [fn |-> "detect_grammaticality", utterance |-> JoinTokens(ts)]
    /\ lines = <<>>
    /\ pc = "call"
    /\ DefaultState

CallDetectGrammaticality ==
    /\ pc = "call"
    /\ call.fn = "detect_grammaticality"
    /\ ret' = detect_grammaticality(call.utterance)
    /\ pc' = "returned"
    /\ UNCHANGED <<lines, i, IGTs, saved_linenrs, source, pagenr, error, trace, call>>

NextGram == CallDetectGrammaticality

SpecGram == InitGram /\ [][NextGram]_vars

\* ------------------------------------------------------------------------
\* harvest_glosses: harvest_IGTs called for one file after another
\* ------------------------------------------------------------------------

MaxFileLines == 3
MaxOtherLines == 2

BatchPool == {rowDocA, rowL1, rowG3, rowU5, rowV, rowBlank}

\* the files of n rows in which no row occurs twice
RECURSIVE FilesOfLen(_)
FilesOfLen(n) ==
    IF n = 0 THEN {<<>>}
    ELSE {t \in {Append(s, r) : s \in FilesOfLen(n - 1), r \in BatchPool} :
             t[n] \notin Range(SubSeq(t, 1, n - 1))}

\* the locals of a call that is passed the locals of the previous call
harvest_IGTs_entry_global(previous) == previous

\* the locals of a new call of harvest_IGTs: IGTs and saved_linenrs are new
\* empty lists, source and pagenr are not assigned yet; nothing of the
\* previous call's frame is kept
harvest_IGTs_entry(previous) ==
    [IGTs |-> <<>>, saved_linenrs |-> <<>>, source |-> Unbound, pagenr |-> Unbound]

\* a directory of three files, the first and the third with the same rows
InitBatch ==
    /\ \E n \in 0..MaxFileLines, m \in 0..MaxOtherLines :
          \E a \in FilesOfLen(n), b \in FilesOfLen(m) :
             /\ call = [fn |-> "harvest_glosses", files |-> <<a, b, a>>, k |-> 1,
                        returned |-> <<>>]
             /\ lines = a
    /\ pc = "loop"
    /\ DefaultState

\* pdf2gloss.py 169-172: IGT_list is kept and the next file is harvested
NextFile ==
    /\ call.fn = "harvest_glosses"
    /\ pc = "done"
    /\ call.k < Len(call.files)
    /\ call' = [call EXCEPT !.k = @ + 1, !.returned = Append(@, ret)]
    /\ lines' = call.files[call.k + 1]
    /\ LET frame == harvest_IGTs_entry([IGTs |-> IGTs, saved_linenrs |-> saved_linenrs,
                                        source |-> source, pagenr |-> pagenr])
       IN  /\ IGTs' = frame.IGTs
           /\ saved_linenrs' = frame.saved_linenrs
           /\ source' = frame.source
           /\ pagenr' = frame.pagenr
    /\ i' = 0
    /\ trace' = <<>>
    /\ ret' = <<>>
    /\ pc' = "loop"
    /\ UNCHANGED error

RECURSIVE Concat(_)
Concat(ss) == IF ss = <<>> THEN <<>> ELSE ss[1] \o Concat(Tail(ss))

\* pdf2gloss.py 172-178: IGT_list_complete is returned
BatchReturn ==
    /\ call.fn = "harvest_glosses"
    /\ pc = "done"
    /\ call.k = Len(call.files)
    /\ call' = [call EXCEPT !.returned = Append(@, ret)]
    /\ ret' = Concat(Append(call.returned, ret))
    /\ pc' = "returned"
    /\ UNCHANGED <<lines, i, IGTs, saved_linenrs, source, pagenr, error, trace>>

NextBatch ==
    \/ LLine
    \/ GTSingle
    \/ GTZero
    \/ FallbackSkip
    \/ FallbackCreate
    \/ NoEffect
    \/ DocBoundary
    \/ OtherRow
    \/ Raise
    \/ Return
    \/ NextFile
    \/ BatchReturn

SpecBatch == InitBatch /\ [][NextBatch]_vars

\* (1)   1   11   a   x1y
NormTokens ==
    {<<"(", "1", ")">>, <<"1">>, <<"1", "1">>, <<"a">>, <<"x", "1", "y">>}

\* line=1 tag=L:<tokens>
InitNormalize ==
    /\ \E n \in 0..MaxTokens : \E ts \in [1..n -> NormTokens] :
          call = [fn |-> "get_utterance_and_prefix",
                  row |-> kLINE_EQ \o <<"1", " ">> \o kTAG_EQ \o <<"L", ":">>
                            \o JoinTokens(ts) \o <<"\n">>]
    /\ lines = <<>>
    /\ pc = "call"
    /\ DefaultState

CallGetUtteranceAndPrefix ==
    /\ pc = "call"
    /\ call.fn = "get_utterance_and_prefix"
    /\ ret' = get_utterance_and_prefix(call.row)
    /\ pc' = "returned"
    /\ UNCHANGED <<lines, i, IGTs, saved_linenrs, source, pagenr, error, trace, call>>

NextNormalize == CallGetUtteranceAndPrefix

SpecNormalize == InitNormalize /\ [][NextNormalize]_vars

\* ------------------------------------------------------------------------
\* Properties
\* ------------------------------------------------------------------------

CountOf(seq, x) == Cardinality({k \in 1..Len(seq) : seq[k] = x})

InPass == call.fn = "harvest_IGTs"

\* the pass is at a content row
AtContent == InPass /\ pc = "loop" /\ i < Len(lines) /\ startswith(row, kLINE)

\* the pass is at a G or T row with a line number
AtGT == AtContent /\ get_linetag(row) \in {tagG, tagT} /\ int_ok(get_linenr(row))

\* the records whose linenr is within 2 of the current row's line number
NearRecords ==
    {k \in 1..Len(IGTs) : IGTs[k].linenr - int(get_linenr(row)) \in -2..2}

Consumed(x) == \E k \in 1..Len(saved_linenrs') : saved_linenrs'[k] = x

\* C1: the number of records returned equals the number of L-tagged content
\* lines, plus the G/T lines that had no proximity candidate when processed,
\* plus the records the confidence fallback created.
C1_RecordCount ==
    (InPass /\ pc = "done") =>
        Len(ret) = Cardinality({k \in 1..Len(lines) :
                                   startswith(lines[k], kLINE) /\ get_linetag(lines[k]) = tagL})
                   + CountOf(trace, "zero") + CountOf(trace, "fb_create")

\* C2: a G or T line with more than one record within 2 of its line number
\* creates no record, mutates no record and is not marked consumed,
\* whatever its iscore is.
C2_MultiCandidateNoOp ==
    [][(AtGT /\ Cardinality(NearRecords) > 1) =>
          (IGTs' = IGTs /\ saved_linenrs' = saved_linenrs)]_vars

\* C3: a G or T line with zero proximity candidates adds exactly one record
\* to the collection, with gloss (G) or translation (T) the current
\* utterance, line and prefix taken from the physical line at index-1 (G) or
\* index-2 (T), the zero-candidate provenance as its only provenance entry,
\* and the line number marked consumed.
C3_ZeroCandidateCreates ==
    [][(AtGT /\ NearRecords = {} /\ i' = i + 1) =>
          /\ Len(IGTs') = Len(IGTs) + 1
          /\ SubSeq(IGTs', 1, Len(IGTs)) = IGTs
          /\ LET r == IGTs'[Len(IGTs')]
                 pu == get_utterance_and_prefix(
                           PyIdx(lines, IF get_linetag(row) = tagG THEN i - 1 ELSE i - 2))
                 u == get_utterance_and_prefix(row).utterance
             IN  /\ IF get_linetag(row) = tagG THEN r.gloss = u ELSE r.translation = u
                 /\ r.line = pu.utterance
                 /\ r.prefix = pu.prefix
                 /\ r.classification_methods =
                        <<"IGT initialized by G or T tag, L assigned accordingly">>
          /\ Consumed(get_linenr(row))]_vars

\* the stream is a document boundary, then L numbered n, G numbered n+1 and
\* T numbered n+2
LGT_stream ==
    /\ Len(lines) = 4
    /\ startswith(lines[1], kDOC_ID)
    /\ \A k \in 2..4 : startswith(lines[k], kLINE) /\ int_ok(get_linenr(lines[k]))
    /\ get_linetag(lines[2]) = tagL
    /\ get_linetag(lines[3]) = tagG
    /\ get_linetag(lines[4]) = tagT
    /\ int(get_linenr(lines[3])) = int(get_linenr(lines[2])) + 1
    /\ int(get_linenr(lines[4])) = int(get_linenr(lines[2])) + 2

\* C4: for a boundary line followed by L (n), G (n+1), T (n+2) the pass
\* returns exactly one record, with the boundary's source and pagenr,
\* linenr n, as prefix the enumeration tokens stripped from the L utterance,
\* the G utterance as gloss, the T utterance as translation and 3
\* provenance entries.
C4_EndToEnd ==
    (InPass /\ pc \in {"done", "raised"} /\ LGT_stream) =>
        /\ pc = "done"
        /\ Len(ret) = 1
        /\ ret[1].source = doc_id_group(lines[1])
        /\ ret[1].pagenr = doc_page(lines[1])
        /\ ret[1].linenr = int(get_linenr(lines[2]))
        /\ ret[1].prefix = detect_prefix(get_utterance(lines[2]))
        /\ ret[1].gloss = get_utterance_and_prefix(lines[3]).utterance
        /\ ret[1].translation = get_utterance_and_prefix(lines[4]).utterance
        /\ Len(ret[1].classification_methods) = 3

\* C5: a G or T line with exactly one record within 2 of its line number
\* mutates that record alone: its gloss (G) or translation (T) becomes the
\* current utterance and one provenance entry is appended; the number of
\* records and every other record are unchanged and the line number is
\* marked consumed.
C5_SingleCandidateUpdates ==
    [][(AtGT /\ Cardinality(NearRecords) = 1) =>
          LET k == CHOOSE n \in NearRecords : TRUE
              u == get_utterance_and_prefix(row).utterance
          IN  /\ Len(IGTs') = Len(IGTs)
              /\ \A n \in 1..Len(IGTs) : n # k => IGTs'[n] = IGTs[n]
              /\ IF get_linetag(row) = tagG
                 THEN IGTs'[k] = [IGTs[k] EXCEPT
                                     !.gloss = u,
                                     !.classification_methods = Append(@, "updated gloss by tag")]
                 ELSE IGTs'[k] = [IGTs[k] EXCEPT
                                     !.translation = u,
                                     !.classification_methods =
                                         Append(@, "updated translation by tag")]
              /\ Consumed(get_linenr(row))]_vars

\* a T row has updated the nearer of two records, the other one being more
\* than 2 lines away from it
C5_Witness ==
    /\ InPass
    /\ trace # <<>>
    /\ trace[Len(trace)] = "single"
    /\ get_linetag(lines[i]) = tagT
    /\ \E a, b \in 1..Len(IGTs) :
          /\ IGTs[a].translation = get_utterance_and_prefix(lines[i]).utterance
          /\ IGTs[b].linenr - int(get_linenr(lines[i])) \notin -2..2
          /\ IGTs[b].translation = NA

\* C6: every L-tagged content line appends exactly one record at the end of
\* the collection, with the line's number as linenr, the ambient source and
\* pagenr and the L provenance as its only provenance entry; it mutates no
\* existing record and marks its line number consumed.
C6_LAlwaysAppends ==
    [][(AtContent /\ get_linetag(row) = tagL) =>
          /\ Len(IGTs') = Len(IGTs) + 1
          /\ SubSeq(IGTs', 1, Len(IGTs)) = IGTs
          /\ LET r == IGTs'[Len(IGTs')]
             IN  /\ r.linenr = int(get_linenr(row))
                 /\ r.source = source.v
                 /\ r.pagenr = pagenr.v
                 /\ r.classification_methods = <<"IGT initialized by L tag">>
          /\ Consumed(get_linenr(row))]_vars

IsPrefixOf(a, b) == Len(a) <= Len(b) /\ SubSeq(b, 1, Len(a)) = a

\* C7: every record's classification_methods has at least one entry, and a
\* step leaves it unchanged or appends exactly one entry to it.
C7_ProvenanceAppendOnly ==
    /\ [](\A k \in 1..Len(IGTs) : Len(IGTs[k].classification_methods) >= 1)
    /\ [][\A k \in 1..Len(IGTs) :
             /\ k <= Len(IGTs')
             /\ LET old == IGTs[k].classification_methods
                    new == IGTs'[k].classification_methods
                IN  \/ new = old
                    \/ Len(new) = Len(old) + 1 /\ IsPrefixOf(old, new)]_vars

\* a record that was created by an L row and then updated twice
C7_Witness ==
    /\ InPass
    /\ \E k \in 1..Len(IGTs) :
          /\ Len(IGTs[k].classification_methods) = 3
          /\ IGTs[k].classification_methods[1] = "IGT initialized by L tag"

\* C8: the pass over any stream of boundary and content lines runs to the
\* end without raising.
C8_NeverRaises == InPass => pc # "raised"

\* what C9 says get_context returns: the utterances from index-size on, up to
\* the first index outside 0..len-1 or the end of the window
RECURSIVE window_from(_, _, _)
window_from(lns, k, stop) ==
    IF k >= stop \/ k < 0 \/ k >= Len(lns) THEN <<>>
    ELSE get_utterance(lns[k + 1]) \o <<"\n">> \o window_from(lns, k + 1, stop)

\* C9: get_context returns the utterances, each followed by a newline, of
\* the lines at index-w, index-w+1, ... up to the first index of
\* [index-w, index+w) outside the stream; no line outside that window is
\* included.
C9_ContextWindow ==
    (call.fn = "get_context" /\ pc = "returned") =>
        ret = window_from(lines, call.index - call.size, call.index + call.size)

\* C10's enumeration-prefix token
enumeration_token(item) ==
    /\ Len(item) < 6
    /\ \E k \in 1..Len(item) : item[k] \in {".", "(", ")", "{", "}", "[", "]"} \cup Digits

RECURSIVE leading_run(_)
leading_run(ws) ==
    IF ws = <<>> \/ ~enumeration_token(ws[1]) THEN <<>>
    ELSE <<ws[1]>> \o leading_run(Tail(ws))

\* C10: detect_prefix returns the maximal leading run of enumeration-prefix
\* tokens, also when every token qualifies, and no prefix exactly when the
\* first token does not qualify or there is no token.
C10_MaximalLeadingRun ==
    (call.fn = "detect_prefix" /\ pc = "returned") =>
        LET run == leading_run(words_of(call.line))
        IN  IF run = <<>> THEN ~truthy(ret) ELSE ret = PyList(run)

\* the leading characters of a token that are grammaticality markers
RECURSIVE leading_markers(_)
leading_markers(w) ==
    IF w = <<>> \/ w[1] \notin {"*", "?", "#", "%"} THEN <<>>
    ELSE <<w[1]>> \o leading_markers(Tail(w))

\* C11: for every utterance with at least one token detect_grammaticality
\* returns the string of leading marker characters of the first token
\* (possibly empty), also when the first token has only marker characters;
\* the sentinel is returned only when the utterance has no token.
C11_LeadingMarkers ==
    (call.fn = "detect_grammaticality" /\ pc = "returned") =>
        LET ws == words_of(call.utterance)
        IN  IF ws = <<>> THEN ret = PyNone
            ELSE ret = PyStr(leading_markers(ws[1]))

\* C12: the collection is append-only across the pass: a step keeps every
\* existing record at its position with the same linenr (and the same first
\* provenance entry) and adds at most one record at the end; the value
\* returned at the end of the stream is that collection, records whose gloss
\* or translation is still "NA" included.
C12_AppendOnly ==
    /\ [][InPass =>
             /\ Len(IGTs') \in {Len(IGTs), Len(IGTs) + 1}
             /\ \A k \in 1..Len(IGTs) :
                   /\ IGTs'[k].linenr = IGTs[k].linenr
                   /\ IGTs'[k].classification_methods[1] = IGTs[k].classification_methods[1]]_vars
    /\ []((InPass /\ pc = "done") => ret = IGTs)

\* a pass has returned a record that was updated by tag, followed by a
\* record that is still without gloss and translation
C12_Witness ==
    /\ InPass
    /\ pc = "done"
    /\ \E a, b \in 1..Len(ret) :
          /\ a < b
          /\ Len(ret[a].classification_methods) >= 2
          /\ ret[b].gloss = NA
          /\ ret[b].translation = NA

InBatch == call.fn = "harvest_glosses"

FallbackCreated ==
    /\ InPass
    /\ Len(IGTs') = Len(IGTs) + 1
    /\ IGTs'[Len(IGTs')].classification_methods =
           <<"IGT initialized by iscore L and T assigned accordingly">>

\* C14: a record created by the confidence fallback at stream index i has
\* as translation the utterance of the physical line at index i+1 whenever
\* that line exists, and "NA" only when line i is the last line; its gloss
\* is the current utterance and its line and prefix come from the physical
\* line at index i-1.
C14_FallbackLookahead ==
    [][FallbackCreated =>
          LET r == IGTs'[Len(IGTs')]
          IN  /\ r.translation = (IF i + 1 < Len(lines) THEN get_utterance(lines[i + 2]) ELSE NA)
              /\ r.gloss = get_utterance_and_prefix(row).utterance
              /\ i >= 1
              /\ r.line = get_utterance_and_prefix(lines[i]).utterance
              /\ r.prefix = get_utterance_and_prefix(lines[i]).prefix]_vars

\* the pass is at a content row whose tag is none of L, G, T
AtUntagged == AtContent /\ get_linetag(row) \notin {tagL, tagG, tagT}

\* C15: a content line whose tag is none of L, G, T creates a record and
\* marks its number consumed if and only if its iscore is above the cutoff
\* and the line number of the physical line before it is not consumed; in
\* every other case the collection and the consumed set are unchanged.
C15_FallbackIff ==
    [][AtUntagged =>
          IF /\ get_iscore(row) > iscore_cutoff
             /\ ~saved(get_linenr(PyIdx(lines, i - 1)))
          THEN /\ Len(IGTs') = Len(IGTs) + 1
               /\ SubSeq(IGTs', 1, Len(IGTs)) = IGTs
               /\ Consumed(get_linenr(row))
          ELSE /\ IGTs' = IGTs
               /\ saved_linenrs' = saved_linenrs]_vars

\* a row that starts with doc_id (and not with line)
is_boundary(r) == startswith(r, kDOC_ID) /\ ~startswith(r, kLINE)

\* the most recent document-boundary row among the first n rows, 0 if none
last_boundary(lns, n) ==
    LET bs == {k \in 1..n : is_boundary(lns[k])}
    IN  IF bs = {} THEN 0 ELSE CHOOSE k \in bs : \A j \in bs : j <= k

\* the text between doc_id= and -scanned, and the text after page= up to
\* the next space
boundary_source(r) == split(split(r, kDOC_ID_EQ)[2], kSCANNED)[1]
boundary_pagenr(r) == split(split(r, kPAGE_EQ)[2], <<" ">>)[1]

\* C16: a document-boundary line leaves the collection and the consumed
\* set unchanged; a record that is created takes the source and pagenr of
\* the most recent boundary line before the content line that creates it;
\* and no step, a later boundary line included, changes the source or the
\* pagenr of an existing record.
C16_SourceFromLastBoundary ==
    [][(InPass /\ pc = "loop" /\ i < Len(lines)) =>
          /\ is_boundary(row) => (IGTs' = IGTs /\ saved_linenrs' = saved_linenrs)
          /\ \A k \in 1..Len(IGTs) :
                /\ k <= Len(IGTs')
                /\ IGTs'[k].source = IGTs[k].source
                /\ IGTs'[k].pagenr = IGTs[k].pagenr
          /\ Len(IGTs') > Len(IGTs) =>
                LET b == last_boundary(lines, i)
                    r == IGTs'[Len(IGTs')]
                IN  /\ b >= 1
                    /\ r.source = boundary_source(lines[b])
                    /\ r.pagenr = boundary_pagenr(lines[b])]_vars

\* a record created under the first boundary line is in the collection
\* after a second boundary line has changed the ambient source and pagenr,
\* and a record has been created under the second
C16_Witness ==
    /\ InPass
    /\ CountOf(trace, "doc") = 2
    /\ source.bound
    /\ \E a, b \in 1..Len(IGTs) :
          /\ IGTs[a].source # source.v
          /\ IGTs[a].pagenr # pagenr.v
          /\ IGTs[b].source = source.v

\* the records a step has changed or removed
Changed == {k \in 1..Len(IGTs) : k > Len(IGTs') \/ IGTs'[k] # IGTs[k]}

\* C17: the pass never links backwards. Every record in the collection was
\* created by a row at an earlier position (the collection has as many
\* records as L and fallback steps were taken, one step per row), so a G or
\* T line can only be merged into such a record, and it changes at most one
\* of them; an L line changes no record that existed before it, and the
\* record it appends has neither gloss nor translation, also when a G or T
\* line within 2 line numbers precedes it.
C17_NoBackwardLink ==
    /\ [](InPass => Len(IGTs) = CountOf(trace, "L") + CountOf(trace, "fb_create"))
    /\ [](InPass => Len(trace) = i)
    /\ [][AtContent =>
             /\ get_linetag(row) \in {tagG, tagT} =>
                   /\ Cardinality(Changed) <= 1
                   /\ Len(IGTs') >= Len(IGTs)
             /\ get_linetag(row) = tagL =>
                   /\ Changed = {}
                   /\ \A k \in (Len(IGTs) + 1)..Len(IGTs') :
                         /\ IGTs'[k].gloss = NA
                         /\ IGTs'[k].translation = NA]_vars

\* an L row just after a G row numbered within 2 of it has appended its
\* record
C17_Witness ==
    /\ InPass
    /\ i >= 2
    /\ trace[i] = "L"
    /\ get_linetag(lines[i - 1]) = tagG
    /\ int(get_linenr(lines[i - 1])) - int(get_linenr(lines[i])) \in -2..2
    /\ IGTs[Len(IGTs)].line = get_utterance_and_prefix(lines[i]).utterance

\* s from its first whitespace character on
RECURSIVE skip_token(_)
skip_token(s) == IF s = <<>> \/ s[1] \in Whitespace THEN s ELSE skip_token(Tail(s))

\* s without the characters of its first n tokens; the whitespace stays
RECURSIVE drop_tokens(_, _)
drop_tokens(s, n) ==
    IF n = 0 \/ s = <<>> THEN s
    ELSE IF s[1] \in Whitespace THEN <<s[1]>> \o drop_tokens(Tail(s), n)
    ELSE drop_tokens(skip_token(s), n - 1)

\* C18: get_utterance_and_prefix removes each token returned by
\* detect_prefix exactly once, at its leading occurrence: the utterance it
\* returns is the row's utterance without the characters of its first n
\* tokens, n the number of prefix tokens, so a later duplicate of a prefix
\* token stays and the tokens after the prefix are unchanged, in order.
C18_FirstOccurrenceOnly ==
    (call.fn = "get_utterance_and_prefix" /\ pc = "returned") =>
        LET u == get_utterance(call.row)
            ws == words_of(u)
            n == IF truthy(ret.prefix) THEN Len(ret.prefix.v) ELSE 0
        IN  /\ n <= Len(ws)
            /\ truthy(ret.prefix) => ret.prefix.v = SubSeq(ws, 1, n)
            /\ ret.utterance = drop_tokens(u, n)
            /\ words_of(ret.utterance) = SubSeq(ws, n + 1, Len(ws))

\* a prefix token was removed from an utterance in which the same text
\* occurs again after the prefix, and the second occurrence is still there
C18_Witness ==
    /\ call.fn = "get_utterance_and_prefix"
    /\ pc = "returned"
    /\ truthy(ret.prefix)
    /\ \E k \in 1..Len(words_of(ret.utterance)) :
          words_of(ret.utterance)[k] = ret.prefix.v[1]

\* C19: every record carries as linenr the line= number of the content line
\* it originated from, the records created by the confidence fallback
\* included: a record that a step appends has the current row's line
\* number, so that a single-candidate G or T line is merged only into a
\* record whose originating line is numbered within 2 of it.
C19_LinenrOfOrigin ==
    [][(AtContent /\ Len(IGTs') = Len(IGTs) + 1) =>
          /\ int_ok(get_linenr(row))
          /\ IGTs'[Len(IGTs')].linenr = int(get_linenr(row))]_vars

====
